---- MODULE Spec2Model ----
(***************************************************************************)
(* dftimewolf/lib/state.py: DFTimewolfState.                               *)
(*                                                                         *)
(* Three specifications share one state and one Init (the state after      *)
(* __init__):                                                              *)
(*   Spec / FairSpec  load_recipe, setup_modules, run_modules: the main    *)
(*                    thread and one task per module, interleaved at the   *)
(*                    granularity of the attribute loads, list calls and   *)
(*                    attribute stores of add_error and cleanup;           *)
(*   SpecLedger       one caller using add_error, cleanup and check_errors *)
(*                    one call after the other;                            *)
(*   SpecStore        tasks using store_container and get_containers       *)
(*                    under _store_lock.                                   *)
(* Python lists are objects: an attribute holds a reference, so the lists  *)
(* live in a heap (lists, clists) and the attributes hold ids.             *)
(***************************************************************************)
EXTENDS Integers, Sequences, FiniteSets, TLC

\* ------------------------------------------------------------------ inputs

\* recipe['modules'], in recipe order
ModuleOrder == <<"A", "B", "C">>

Modules == {ModuleOrder[i] : i \in 1..Len(ModuleOrder)}

\* a name some 'wants' may carry that no module of the recipe declares
Undeclared == "Z"

Names == Modules \cup {Undeclared}

\* the caller of SpecLedger
Client == "client"

Threads == Modules \cup {Client}

NoWants == [m \in Modules |-> <<>>]

\* the 'wants' lists of the recipes the model runs
Recipes ==
  { [NoWants EXCEPT !["B"] = <<"A">>, !["C"] = <<"A">>],
    [NoWants EXCEPT !["A"] = <<"C">>, !["C"] = <<"B">>],
    [NoWants EXCEPT !["C"] = <<"A", "B">>],
    [NoWants EXCEPT !["B"] = <<"B">>, !["C"] = <<"A">>],
    [NoWants EXCEPT !["A"] = <<"B">>, !["B"] = <<"A">>, !["C"] = <<"A">>],
    [NoWants EXCEPT !["B"] = <<"A", "Z">>, !["C"] = <<"B">>],
    [NoWants EXCEPT !["B"] = <<"A">>, !["C"] = <<"B", "Z">>],
    [NoWants EXCEPT !["A"] = <<"Z", "A">>, !["C"] = <<"B">>] }

\* at most this many setup()/process() calls raise in one run
MaxFaults == 1

\* the SpecLedger caller makes at most this many add_error calls
MaxErrors == 3

\* the SpecLedger caller makes at most this many check_errors calls that print
MaxChecks == 1

\* at most this many items are put in self.output between two cleanup() calls
MaxOutput == 1

\* the error texts the SpecLedger caller passes to add_error
ClientMessages == {<<"", "client", "e1">>, <<"", "client", "e2">>}

\* the items a module puts in self.output
OutputItems == {"o1"}

\* the tasks of SpecStore
StoreTasks == {"t1", "t2"}

\* container.CONTAINER_TYPE and the payloads of the containers stored
Tags == {"T", "U"}

Payloads == {"c1", "c2"}

Containers == [type : Tags, data : Payloads]

\* SpecStore makes at most this many store_container calls
MaxStores == 3

\* ------------------------------------------------------------------- state

VARIABLES
  mpc,            \* position of the main thread
  recipe,         \* self.recipe: the 'wants' list of each module
  loaded,         \* FALSE while self.recipe is None
  module_pool,    \* self._module_pool: the names registered
  spawned,        \* number of threads the current start loop has started
  pc,             \* position of each task
  task,           \* what each thread runs: "none", "setup", "run", "client"
  wi,             \* index of the blocker a run task is waiting for
  arg,            \* the (error, critical) a task passes to add_error
  lref,           \* the list reference a task has loaded from self.errors
  errorsRef,      \* self.errors: id of the phase-local list
  lists,          \* heap of the lists self.errors has referred to
  global_errors,  \* self.global_errors
  input,          \* self.input
  output,         \* self.output
  events,         \* self.events: name -> "absent", "unset", "set"
  out,            \* lines printed so far
  exitStatus,     \* <<>> while running, <<status>> once the process exited
  hist,           \* history: what each module's setup()/process() did
  faults,         \* number of setup()/process() calls that raised so far
  call,           \* history: the last call of the SpecLedger caller
  store,          \* self.store: container type -> id of its list
  clists,         \* heap of the lists self.store has handed out
  lock,           \* self._store_lock: the task holding it, or NoTask
  req,            \* the call a store task is in
  got,            \* what get_containers returned to each store task
  stored          \* history: the containers stored, in the order of storing

\* the variables of store_container and get_containers
storeVars == <<store, clists, lock, req, got, stored>>

\* the other variables
stateVars == <<mpc, recipe, loaded, module_pool, spawned, pc, task, wi, arg,
               lref, errorsRef, lists, global_errors, input, output, events,
               out, exitStatus, hist, faults, call>>

vars == <<stateVars, storeVars>>

\* a local that holds no list, and one that holds list i
NoRef == <<>>

Ref(i) == <<i>>

Deref(r) == r[1]

NoArg == [error |-> <<"", "", "">>, critical |-> FALSE]

\* ------------------------------------------------------------ list objects

\* the ids some attribute or some task's local still refers to
Reachable(ref, lr) ==
  {ref} \cup {Deref(lr[t]) : t \in {u \in Threads : lr[u] # NoRef}}

\* a new list object gets the least id not in use
FreshId(used) ==
  CHOOSE i \in 0..Cardinality(used) :
    i \notin used /\ \A j \in 0..(i - 1) : j \in used

\* lists no reference reaches are collected
Collect(ls, ref, lr) == [i \in Reachable(ref, lr) \cap DOMAIN ls |-> ls[i]]

\* the contents of self.errors
errors == lists[errorsRef]

\* ------------------------------------------------------------- formatting

\* 'An unknown error occurred: {0!s}'.format(error)
UnknownPrefix == "An unknown error occurred: "

\* an exception raised by module m in setup() or process(): str(error)
ErrorText(m, where) == <<m, where>>

WrapUnknown(text) == <<UnknownPrefix, text[1], text[2]>>

\* DFTimewolfError.message
DomainMessage(text) == <<"", text[1], text[2]>>

NoText == <<"", "", "">>

HeaderLine == [kind |-> "header", prefix |-> "", text |-> NoText]

\* '{0:s}  {1:s}'.format('CRITICAL: ' if critical else '', error)
EntryLine(e) ==
  [kind |-> "entry",
   prefix |-> IF e.critical THEN "CRITICAL: " ELSE "",
   text |-> e.error]

AbortLine == [kind |-> "abort", prefix |-> "", text |-> NoText]

\* 'Module {0:s} completed'.format(name)
CompletedLine(m) == [kind |-> "completed", prefix |-> "", text |-> <<"", m, "">>]

\* sys.exit(-1): the status the parent sees
ExitArg == -1

ExitByte == 256

ExitCode == ExitArg % ExitByte

\* ----------------------------------------------------------- check_errors

\* mutant of ScanErrors: the loop goes on after a critical entry
RECURSIVE ScanErrorsOn(_, _)
ScanErrorsOn(es, i) ==
  IF i > Len(es) THEN [printed |-> <<>>, exit |-> FALSE]
  ELSE LET rest == ScanErrorsOn(es, i + 1)
       IN  [printed |-> (IF es[i].critical
                         THEN <<EntryLine(es[i]), AbortLine>>
                         ELSE <<EntryLine(es[i])>>) \o rest.printed,
            exit |-> es[i].critical \/ rest.exit]

\* the for loop of check_errors from entry i on: the lines it prints and
\* whether it reached sys.exit
RECURSIVE ScanErrors(_, _)
ScanErrors(es, i) ==
  IF i > Len(es) THEN [printed |-> <<>>, exit |-> FALSE]
  ELSE IF es[i].critical
       THEN [printed |-> <<EntryLine(es[i]), AbortLine>>, exit |-> TRUE]
       ELSE LET rest == ScanErrors(es, i + 1)
            IN  [printed |-> <<EntryLine(es[i])>> \o rest.printed,
                 exit |-> rest.exit]

\* mutant of CheckErrors: only the first entry is looked at
CheckErrorsFirst(es) ==
  IF es = <<>> THEN [printed |-> <<>>, exit |-> FALSE]
  ELSE LET scan == ScanErrors(<<es[1]>>, 1)
       IN  [printed |-> <<HeaderLine>> \o scan.printed, exit |-> scan.exit]

CheckErrors(es) ==
  IF es = <<>> THEN [printed |-> <<>>, exit |-> FALSE]
  ELSE LET scan == ScanErrors(es, 1)
       IN  [printed |-> <<HeaderLine>> \o scan.printed, exit |-> scan.exit]

\* ------------------------------------------------------------------- Init

\* no call of the SpecLedger caller yet; a call records the lists and the
\* staging buffers it started from and the number of lines printed before it
NoCall == [op |-> "none", scope |-> "", L |-> <<>>, G |-> <<>>, I |-> <<>>,
           O |-> <<>>, from |-> 0]

NoTask == "free"

NoReq == [op |-> "none", type |-> "", data |-> ""]

NoGot == [ref |-> NoRef, type |-> "", snap |-> <<>>, log |-> <<>>]

\* setup: "none", "returned", "raised"
\* process: "none", "running", "returned", "domain", "other"
\* added: number of add_error calls the module's tasks have completed
\* sets: number of Event.set() calls the module's tasks have made
\* cleanups: number of cleanup() calls the module's tasks have completed
NoHist == [setup |-> "none", process |-> "none", added |-> 0, sets |-> 0,
           cleanups |-> 0]

Init ==
  /\ mpc = "new"
  /\ recipe = NoWants
  /\ loaded = FALSE
  /\ module_pool = {}
  /\ spawned = 0
  /\ pc = [t \in Threads |-> "idle"]
  /\ task = [t \in Threads |-> "none"]
  /\ wi = [t \in Threads |-> 1]
  /\ arg = [t \in Threads |-> NoArg]
  /\ lref = [t \in Threads |-> NoRef]
  /\ errorsRef = 0
  /\ lists = [i \in {0} |-> <<>>]
  /\ global_errors = <<>>
  /\ input = <<>>
  /\ output = <<>>
  /\ events = [n \in Names |-> "absent"]
  /\ out = <<>>
  /\ exitStatus = <<>>
  /\ hist = [m \in Modules |-> NoHist]
  /\ faults = 0
  /\ call = NoCall
  /\ store = [g \in Tags |-> NoRef]
  /\ clists = <<>>
  /\ lock = NoTask
  /\ req = [k \in StoreTasks |-> NoReq]
  /\ got = [k \in StoreTasks |-> NoGot]
  /\ stored = <<>>

\* --------------------------------------------------- add_error and cleanup

\* mutant of AfterAddError: a run task that recorded a failure ends there
AfterAddErrorStop(t) ==
  CASE task[t] = "setup" -> "s_event"
    [] task[t] = "run" -> "r_done"
    [] OTHER -> "idle"

\* where a task goes on after add_error returns
AfterAddError(t) ==
  CASE task[t] = "setup" -> "s_event"
    [] task[t] = "run" -> "r_print"
    [] OTHER -> "idle"

\* mutant of AfterCleanup: a run task does not come back from cleanup()
AfterCleanupHang(t) ==
  CASE task[t] = "setup" -> "s_done"
    [] task[t] = "run" -> "r_hung"
    [] OTHER -> "idle"

\* where a task goes on after cleanup returns
AfterCleanup(t) ==
  CASE task[t] = "setup" -> "s_done"
    [] task[t] = "run" -> "r_done"
    [] OTHER -> "idle"

\* add_error: self.errors is loaded
AddErrorLoad(t) ==
  /\ pc[t] = "ae_load"
  /\ lref' = [lref EXCEPT ![t] = Ref(errorsRef)]
  /\ pc' = [pc EXCEPT ![t] = "ae_append"]
  /\ UNCHANGED <<storeVars, call, mpc, recipe, loaded, module_pool, spawned, task, wi, arg,
                 errorsRef, lists, global_errors, input, output, events, out,
                 exitStatus, hist, faults>>

\* add_error: .append((error, critical)) on the list that was loaded
AddErrorAppend(t) ==
  /\ pc[t] = "ae_append"
  /\ LET lr == [lref EXCEPT ![t] = NoRef]
         ls == [lists EXCEPT ![Deref(lref[t])] = Append(@, arg[t])]
     IN  /\ lref' = lr
         /\ lists' = Collect(ls, errorsRef, lr)
  /\ arg' = [arg EXCEPT ![t] = NoArg]
  /\ pc' = [pc EXCEPT ![t] = AfterAddError(t)]
  /\ hist' = IF t \in Modules
             THEN [hist EXCEPT ![t].added = @ + 1]
             ELSE hist
  /\ UNCHANGED <<storeVars, call, mpc, recipe, loaded, module_pool, spawned, task, wi,
                 errorsRef, global_errors, input, output, events, out,
                 exitStatus, faults>>

\* cleanup: self.errors is loaded as the argument of extend
CleanupLoad(t) ==
  /\ pc[t] = "cl_load"
  /\ lref' = [lref EXCEPT ![t] = Ref(errorsRef)]
  /\ pc' = [pc EXCEPT ![t] = "cl_extend"]
  /\ UNCHANGED <<storeVars, call, mpc, recipe, loaded, module_pool, spawned, task, wi, arg,
                 errorsRef, lists, global_errors, input, output, events, out,
                 exitStatus, hist, faults>>

\* mutant of Extended: the local entries are put in front
ExtendedInFront(g, l) == l \o g

\* what extend leaves in the global list
Extended(g, l) == g \o l

\* cleanup: self.global_errors.extend(<the list that was loaded>)
CleanupExtend(t) ==
  /\ pc[t] = "cl_extend"
  /\ global_errors' = Extended(global_errors, lists[Deref(lref[t])])
  /\ LET lr == [lref EXCEPT ![t] = NoRef]
     IN  /\ lref' = lr
         /\ lists' = Collect(lists, errorsRef, lr)
  /\ pc' = [pc EXCEPT ![t] = "cl_reset"]
  /\ UNCHANGED <<storeVars, call, mpc, recipe, loaded, module_pool, spawned, task, wi, arg,
                 errorsRef, input, output, events, out, exitStatus, hist, faults>>

\* mutant of Handoff: output is handed over but not cleared
HandoffKeep(i, o) == [input |-> o, output |-> o]

\* self.input = self.output; self.output = []
Handoff(i, o) == [input |-> o, output |-> <<>>]

\* cleanup: self.errors = []; self.input = self.output; self.output = []
CleanupReset(t) ==
  /\ pc[t] = "cl_reset"
  /\ LET new == FreshId(Reachable(errorsRef, lref))
         ls == [i \in DOMAIN lists \cup {new} |->
                  IF i = new THEN <<>> ELSE lists[i]]
     IN  /\ errorsRef' = new
         /\ lists' = Collect(ls, new, lref)
  /\ LET h == Handoff(input, output)
     IN  /\ input' = h.input
         /\ output' = h.output
  /\ pc' = [pc EXCEPT ![t] = AfterCleanup(t)]
  /\ hist' = IF t \in Modules
             THEN [hist EXCEPT ![t].cleanups = @ + 1]
             ELSE hist
  /\ UNCHANGED <<storeVars, call, mpc, recipe, loaded, module_pool, spawned, task, wi, arg,
                 lref, global_errors, events, out, exitStatus, faults>>

LedgerStep(t) ==
  \/ AddErrorLoad(t)
  \/ AddErrorAppend(t)
  \/ CleanupLoad(t)
  \/ CleanupExtend(t)
  \/ CleanupReset(t)

\* ---------------------------------------------------------- load_recipe

\* load_recipe: self.recipe is set and every declared module is registered
LoadRecipe ==
  /\ mpc = "new"
  /\ \E r \in Recipes : recipe' = r
  /\ loaded' = TRUE
  /\ module_pool' = Modules
  /\ mpc' = "loaded"
  /\ UNCHANGED <<storeVars, call, spawned, pc, task, wi, arg, lref, errorsRef, lists,
                 global_errors, input, output, events, out, exitStatus, hist, faults>>

\* -------------------------------------------------------- setup_modules

\* setup_modules is called: threads = []
SetupModulesCall ==
  /\ mpc = "loaded"
  /\ mpc' = "setup_spawn"
  /\ spawned' = 0
  /\ UNCHANGED <<storeVars, call, recipe, loaded, module_pool, pc, task, wi, arg, lref,
                 errorsRef, lists, global_errors, input, output, events, out,
                 exitStatus, hist, faults>>

\* the start loop: the thread of the next module of the recipe is started
SetupSpawn ==
  /\ mpc = "setup_spawn"
  /\ spawned < Len(ModuleOrder)
  /\ LET m == ModuleOrder[spawned + 1]
     IN  /\ task' = [task EXCEPT ![m] = "setup"]
         /\ pc' = [pc EXCEPT ![m] = "s_call"]
  /\ spawned' = spawned + 1
  /\ mpc' = IF spawned + 1 = Len(ModuleOrder) THEN "setup_join" ELSE mpc
  /\ UNCHANGED <<storeVars, call, recipe, loaded, module_pool, wi, arg, lref, errorsRef, lists,
                 global_errors, input, output, events, out, exitStatus, hist, faults>>

\* _setup_module_thread: module.setup(**new_args) returns or raises
SetupCall(m) ==
  /\ task[m] = "setup"
  /\ pc[m] = "s_call"
  /\ m \in module_pool
  /\ \/ /\ hist' = [hist EXCEPT ![m].setup = "returned"]
        /\ pc' = [pc EXCEPT ![m] = "s_event"]
        /\ arg' = arg
        /\ faults' = faults
     \/ /\ faults < MaxFaults
        /\ faults' = faults + 1
        /\ hist' = [hist EXCEPT ![m].setup = "raised"]
        /\ arg' = [arg EXCEPT ![m] =
                     [error |-> WrapUnknown(ErrorText(m, "setup")),
                      critical |-> TRUE]]
        /\ pc' = [pc EXCEPT ![m] = "ae_load"]
  /\ UNCHANGED <<storeVars, call, mpc, recipe, loaded, module_pool, spawned, task, wi, lref,
                 errorsRef, lists, global_errors, input, output, events, out,
                 exitStatus>>

\* mutant of NewEvent: the Event is created with its flag set
NewEventSet == "set"

\* threading.Event(): the flag of a new Event is not set
NewEvent == "unset"

\* mutant of SetupEvent: the task goes on to cleanup() without storing an
\* Event
SetupEventSkip(m) ==
  /\ task[m] = "setup"
  /\ pc[m] = "s_event"
  /\ pc' = [pc EXCEPT ![m] = "cl_load"]
  /\ UNCHANGED <<storeVars, call, mpc, recipe, loaded, module_pool, spawned, task, wi, arg,
                 lref, errorsRef, lists, global_errors, input, output, out,
                 exitStatus, hist, faults, events>>

\* _setup_module_thread: self.events[name] = threading.Event()
SetupEvent(m) ==
  /\ task[m] = "setup"
  /\ pc[m] = "s_event"
  /\ events' = [events EXCEPT ![m] = NewEvent]
  /\ pc' = [pc EXCEPT ![m] = "cl_load"]
  /\ UNCHANGED <<storeVars, call, mpc, recipe, loaded, module_pool, spawned, task, wi, arg,
                 lref, errorsRef, lists, global_errors, input, output, out,
                 exitStatus, hist, faults>>

\* a thread join returns for: the task ran to its end, or died
Finished(m, kind) ==
  /\ task[m] = kind
  /\ pc[m] \in {"s_done", "r_done", "r_crashed"}

\* mutant of SetupJoin: the main thread goes on without joining
SetupJoinNoWait ==
  /\ mpc = "setup_join"
  /\ mpc' = "setup_check"
  /\ UNCHANGED <<storeVars, call, recipe, loaded, module_pool, spawned, pc, task, wi, arg,
                 lref, errorsRef, lists, global_errors, input, output, events,
                 out, exitStatus, hist, faults>>

\* the join loop of setup_modules returns
SetupJoin ==
  /\ mpc = "setup_join"
  /\ \A m \in Modules : Finished(m, "setup")
  /\ mpc' = "setup_check"
  /\ UNCHANGED <<storeVars, call, recipe, loaded, module_pool, spawned, pc, task, wi, arg,
                 lref, errorsRef, lists, global_errors, input, output, events,
                 out, exitStatus, hist, faults>>

\* check_errors(is_global=True) as the main thread calls it at the end of a
\* phase; next is where the main thread goes on when it returns
BoundaryCheck(at, next) ==
  /\ mpc = at
  /\ LET r == CheckErrors(global_errors)
     IN  /\ out' = out \o r.printed
         /\ exitStatus' = IF r.exit THEN <<ExitCode>> ELSE exitStatus
         /\ mpc' = IF r.exit THEN "aborted" ELSE next
  /\ UNCHANGED <<storeVars, call, recipe, loaded, module_pool, spawned, pc, task, wi, arg,
                 lref, errorsRef, lists, global_errors, input, output, events,
                 hist, faults>>

SetupCheck == BoundaryCheck("setup_check", "setup_done")

\* ----------------------------------------------------------- run_modules

\* mutant of RunModulesCall: the run phase starts without the setup check
RunModulesCallUnchecked ==
  /\ mpc \in {"setup_check", "setup_done"}
  /\ mpc' = "run_spawn"
  /\ spawned' = 0
  /\ UNCHANGED <<storeVars, call, recipe, loaded, module_pool, pc, task, wi, arg, lref,
                 errorsRef, lists, global_errors, input, output, events, out,
                 exitStatus, hist, faults>>

\* run_modules is called: threads = []
RunModulesCall ==
  /\ mpc = "setup_done"
  /\ mpc' = "run_spawn"
  /\ spawned' = 0
  /\ UNCHANGED <<storeVars, call, recipe, loaded, module_pool, pc, task, wi, arg, lref,
                 errorsRef, lists, global_errors, input, output, events, out,
                 exitStatus, hist, faults>>

\* the start loop: the thread of the next module of the recipe is started
RunSpawn ==
  /\ mpc = "run_spawn"
  /\ spawned < Len(ModuleOrder)
  /\ LET m == ModuleOrder[spawned + 1]
     IN  /\ task' = [task EXCEPT ![m] = "run"]
         /\ pc' = [pc EXCEPT ![m] =
                     IF recipe[m] = <<>> THEN "r_invoke" ELSE "r_wait"]
         /\ wi' = [wi EXCEPT ![m] = 1]
  /\ spawned' = spawned + 1
  /\ mpc' = IF spawned + 1 = Len(ModuleOrder) THEN "run_join" ELSE mpc
  /\ UNCHANGED <<storeVars, call, recipe, loaded, module_pool, arg, lref, errorsRef, lists,
                 global_errors, input, output, events, out, exitStatus, hist, faults>>

\* mutant of WaitReturns: wait() returns whether or not the flag is set
WaitReturnsUnset(ev, b) == ev[b] \in {"unset", "set"}

\* Event.wait() returns once the flag is set
WaitReturns(ev, b) == ev[b] = "set"

\* mutant of AfterWait: the loop ends after its first blocker
AfterWaitFirstOnly(i, w) == "r_invoke"

\* for blocker in wants: after the wait on blocker i of w, the next blocker or
\* the end of the loop
AfterWait(i, w) == IF i = Len(w) THEN "r_invoke" ELSE "r_wait"

\* _run_module_thread: self.events[blocker].wait() for the next blocker;
\* self.events[blocker] raises KeyError for a name with no Event and the
\* thread dies
RunWait(m) ==
  /\ task[m] = "run"
  /\ pc[m] = "r_wait"
  /\ LET b == recipe[m][wi[m]]
     IN  \/ /\ events[b] = "absent"
            /\ pc' = [pc EXCEPT ![m] = "r_crashed"]
            /\ wi' = wi
         \/ /\ events[b] # "absent"
            /\ WaitReturns(events, b)
            /\ wi' = [wi EXCEPT ![m] = @ + 1]
            /\ pc' = [pc EXCEPT ![m] = AfterWait(wi[m], recipe[m])]
  /\ UNCHANGED <<storeVars, call, mpc, recipe, loaded, module_pool, spawned, task, arg, lref,
                 errorsRef, lists, global_errors, input, output, events, out,
                 exitStatus, hist, faults>>

\* _run_module_thread: module.process() is invoked
RunInvoke(m) ==
  /\ task[m] = "run"
  /\ pc[m] = "r_invoke"
  /\ m \in module_pool
  /\ hist' = [hist EXCEPT ![m].process = "running"]
  /\ pc' = [pc EXCEPT ![m] = "r_process"]
  /\ UNCHANGED <<storeVars, call, mpc, recipe, loaded, module_pool, spawned, task, wi, arg,
                 lref, errorsRef, lists, global_errors, input, output, events,
                 out, exitStatus, faults>>

\* _run_module_thread: module.process() returns, raises DFTimewolfError, or
\* raises another Exception
RunProcess(m) ==
  /\ task[m] = "run"
  /\ pc[m] = "r_process"
  /\ \/ /\ hist' = [hist EXCEPT ![m].process = "returned"]
        /\ pc' = [pc EXCEPT ![m] = "r_print"]
        /\ arg' = arg
        /\ faults' = faults
     \/ /\ faults < MaxFaults
        /\ faults' = faults + 1
        /\ hist' = [hist EXCEPT ![m].process = "domain"]
        /\ arg' = [arg EXCEPT ![m] =
                     [error |-> DomainMessage(ErrorText(m, "process")),
                      critical |-> TRUE]]
        /\ pc' = [pc EXCEPT ![m] = "ae_load"]
     \/ /\ faults < MaxFaults
        /\ faults' = faults + 1
        /\ hist' = [hist EXCEPT ![m].process = "other"]
        /\ arg' = [arg EXCEPT ![m] =
                     [error |-> WrapUnknown(ErrorText(m, "process")),
                      critical |-> TRUE]]
        /\ pc' = [pc EXCEPT ![m] = "ae_load"]
  /\ UNCHANGED <<storeVars, call, mpc, recipe, loaded, module_pool, spawned, task, wi, lref,
                 errorsRef, lists, global_errors, input, output, events, out,
                 exitStatus>>

\* _run_module_thread: print('Module {0:s} completed')
RunPrint(m) ==
  /\ task[m] = "run"
  /\ pc[m] = "r_print"
  /\ out' = Append(out, CompletedLine(m))
  /\ pc' = [pc EXCEPT ![m] = "r_set"]
  /\ UNCHANGED <<storeVars, call, mpc, recipe, loaded, module_pool, spawned, task, wi, arg,
                 lref, errorsRef, lists, global_errors, input, output, events,
                 exitStatus, hist, faults>>

\* mutant of Flagged: the Event is replaced by a new one
FlaggedFresh(ev, m) == [ev EXCEPT ![m] = NewEvent]

\* Event.set() on the Event of m
Flagged(ev, m) == [ev EXCEPT ![m] = "set"]

\* _run_module_thread: self.events[name].set()
RunSet(m) ==
  /\ task[m] = "run"
  /\ pc[m] = "r_set"
  /\ events[m] # "absent"
  /\ events' = Flagged(events, m)
  /\ hist' = [hist EXCEPT ![m].sets = @ + 1]
  /\ pc' = [pc EXCEPT ![m] = "cl_load"]
  /\ UNCHANGED <<storeVars, call, mpc, recipe, loaded, module_pool, spawned, task, wi, arg,
                 lref, errorsRef, lists, global_errors, input, output, out,
                 exitStatus, faults>>

\* mutant of RunJoin: the main thread goes on without joining
RunJoinNoWait ==
  /\ mpc = "run_join"
  /\ mpc' = "run_check"
  /\ UNCHANGED <<storeVars, call, recipe, loaded, module_pool, spawned, pc, task, wi, arg,
                 lref, errorsRef, lists, global_errors, input, output, events,
                 out, exitStatus, hist, faults>>

\* the join loop of run_modules returns
RunJoin ==
  /\ mpc = "run_join"
  /\ \A m \in Modules : Finished(m, "run")
  /\ mpc' = "run_check"
  /\ UNCHANGED <<storeVars, call, recipe, loaded, module_pool, spawned, pc, task, wi, arg,
                 lref, errorsRef, lists, global_errors, input, output, events,
                 out, exitStatus, hist, faults>>

RunCheck == BoundaryCheck("run_check", "run_done")

\* ------------------------------------------------------- the orchestrator

MainStep ==
  \/ LoadRecipe
  \/ SetupModulesCall
  \/ SetupSpawn
  \/ SetupJoin
  \/ SetupCheck
  \/ RunModulesCall
  \/ RunSpawn
  \/ RunJoin
  \/ RunCheck

TaskStep(m) ==
  \/ SetupCall(m)
  \/ SetupEvent(m)
  \/ RunWait(m)
  \/ RunInvoke(m)
  \/ RunProcess(m)
  \/ RunPrint(m)
  \/ RunSet(m)
  \/ LedgerStep(m)

Next ==
  \/ MainStep
  \/ \E m \in Modules : TaskStep(m)

Spec == Init /\ [][Next]_vars

\* every started thread keeps being scheduled
FairSpec ==
  /\ Spec
  /\ WF_vars(MainStep)
  /\ \A m \in Modules : WF_vars(TaskStep(m))

\* the run states of the orchestrator
runState ==
  CASE mpc \in {"new", "loaded"} -> "NotStarted"
    [] mpc \in {"setup_spawn", "setup_join", "setup_check"} -> "SetupRunning"
    [] mpc = "setup_done" -> "SetupDone"
    [] mpc \in {"run_spawn", "run_join", "run_check"} -> "RunRunning"
    [] mpc = "run_done" -> "RunDone"
    [] OTHER -> "Aborted"

\* ------------------------------------------------- claims: orchestrator

Range(q) == {q[i] : i \in 1..Len(q)}

\* process() of m has been invoked
ProcessInvoked(m) == hist[m].process # "none"

\* process() of m has raised
ProcessRaised(m) == hist[m].process \in {"domain", "other"}

SetupRaised(m) == hist[m].setup = "raised"

\* the names m wants, directly or through the modules it wants
RECURSIVE WantsClosure(_, _, _)
WantsClosure(r, S, k) ==
  IF k = 0 THEN S
  ELSE WantsClosure(r, S \cup UNION {Range(r[n]) : n \in S \cap Modules}, k - 1)

DepsOf(r, m) == WantsClosure(r, Range(r[m]), Len(ModuleOrder))

\* every name m depends on is a declared module that is on no cycle
Runnable(r, m) ==
  \A n \in DepsOf(r, m) \cup {m} : n \in Modules /\ n \notin DepsOf(r, n)

FanOut == [NoWants EXCEPT !["B"] = <<"A">>, !["C"] = <<"A">>]

\* C1: in the run phase process() of a module M has not been invoked unless
\* the Signal of every module named in M's wants is set.
C1_ProcessAfterWantedSignals ==
  \A m \in Modules : \A d \in Range(recipe[m]) :
    ProcessInvoked(m) => events[d] = "set"

\* C1 witness: with B and C both wanting A, A's Signal is set and process()
\* of B and of C are running at the same time.
C1_Witness ==
  /\ recipe = FanOut
  /\ events["A"] = "set"
  /\ pc["B"] = "r_process"
  /\ pc["C"] = "r_process"

\* C2: a setup() that raised means the run never gets past the setup check
\* and no process() is invoked; a process() that raised means the run does
\* not end in RunDone.
C2_RaiseAlwaysAborts ==
  /\ (\E m \in Modules : SetupRaised(m)) =>
       /\ runState \in {"SetupRunning", "Aborted"}
       /\ \A m \in Modules : ~ProcessInvoked(m)
  /\ (\E m \in Modules : ProcessRaised(m)) => runState # "RunDone"

\* every task of the phase the main thread is in has finished
PhaseTasksFinished ==
  \A m \in Modules :
    Finished(m, IF runState = "SetupRunning" THEN "setup" ELSE "run")

\* the lines of the ledger report among the printed lines
LedgerLines(o) == SelectSeq(o, LAMBDA l : l.kind # "completed")

\* a ledger entry recorded by module d is in the local or the global list
FailureRecorded(d) ==
  \/ \E i \in 1..Len(global_errors) : global_errors[i].error[2] = d
  \/ \E k \in DOMAIN lists : \E i \in 1..Len(lists[k]) : lists[k][i].error[2] = d

\* C5 as stated: once process() of d has raised, from some point on d's
\* Signal is set and every module that wants d has invoked its own process().
C5_FailureUnblocksEveryDependent ==
  <>[](\A d \in Modules : \A m \in Modules :
         (ProcessRaised(d) /\ d \in Range(recipe[m]))
           => (events[d] = "set" /\ ProcessInvoked(m)))

\* C5 amended: once process() of d has raised, from some point on d's Signal
\* is set, so no module stays blocked on d; a module that wants d has then
\* invoked its own process() when every name it depends on is a declared
\* module on no cycle.
C5_FailureUnblocksRunnableDependents ==
  <>[](\A d \in Modules : \A m \in Modules :
         (ProcessRaised(d) /\ d \in Range(recipe[m]))
           => /\ events[d] = "set"
              /\ Runnable(recipe, m) => ProcessInvoked(m))

\* C5 witness: process() of A raised, A's Signal is set and B, which wants A,
\* has invoked its process().
C5_Witness ==
  /\ recipe = FanOut
  /\ ProcessRaised("A")
  /\ events["A"] = "set"
  /\ ProcessInvoked("B")

\* C6: the process exits and ledger lines are printed only by a step the main
\* thread takes at a boundary check with every task of the phase finished;
\* and from some point on every started setup task has completed its
\* cleanup(), and so has every started run task whose wanted Signals can all
\* get set, whatever failures its siblings recorded.
C6_AbortOnlyAtBoundaries ==
  /\ [][(exitStatus' # exitStatus \/ LedgerLines(out') # LedgerLines(out))
          => (mpc \in {"setup_check", "run_check"} /\ PhaseTasksFinished)]_vars
  /\ <>[](\A m \in Modules :
            /\ task[m] # "none" => hist[m].cleanups >= 1
            /\ (task[m] = "run" /\ Runnable(recipe, m))
                 => hist[m].cleanups >= 2)

\* C6 witness: A's failure is in the ledger, its siblings B and C ran to the
\* end of their cleanup(), and the process was aborted after the join.
C6_Witness ==
  /\ runState = "Aborted"
  /\ FailureRecorded("A")
  /\ ProcessRaised("A")
  /\ pc["B"] = "r_done"
  /\ pc["C"] = "r_done"
  /\ exitStatus # <<>>

\* C7: the run states only move NotStarted, SetupRunning, SetupDone,
\* RunRunning, RunDone, with Aborted as the other way out of a boundary
\* check; SetupDone is entered only with every setup task finished and no
\* critical entry in the global list; a run task is started only in
\* RunRunning.
C7_RunAfterSetupPassed ==
  [][/\ \/ runState' = runState
        \/ <<runState, runState'>> \in
             { <<"NotStarted", "SetupRunning">>,
               <<"SetupRunning", "SetupDone">>,
               <<"SetupRunning", "Aborted">>,
               <<"SetupDone", "RunRunning">>,
               <<"RunRunning", "RunDone">>,
               <<"RunRunning", "Aborted">> }
     /\ (runState = "SetupRunning" /\ runState' = "SetupDone") =>
          /\ \A m \in Modules : Finished(m, "setup")
          /\ \A i \in 1..Len(global_errors) : ~global_errors[i].critical
     /\ \A m \in Modules :
          (task'[m] = "run" /\ task[m] # "run") =>
             (runState = "RunRunning" /\ runState' = "RunRunning")
     /\ \A m \in Modules :
          ProcessInvoked(m)' => runState' \in {"RunRunning", "RunDone", "Aborted"}
    ]_vars

\* C7 witness: the setup check has passed and process() of a module is
\* running in the run phase.
C7_Witness ==
  /\ runState = "RunRunning"
  /\ \E m \in Modules : pc[m] = "r_process"
  /\ \A m \in Modules : hist[m].setup = "returned"

\* C12 as stated: when the setup task of a module has finished, the Signal of
\* the module exists and is set.
C12_SetupLeavesSignalSet ==
  \A m \in Modules : Finished(m, "setup") => events[m] = "set"

\* C12 amended: when the setup task of a module has finished, whether setup()
\* returned or raised, the Signal of the module exists and is unset; when
\* setup() raised, the Signal is created only after the add_error call for the
\* failure has returned.
C12_SetupLeavesSignalUnset ==
  \A m \in Modules :
    /\ Finished(m, "setup") => events[m] = "unset"
    /\ (task[m] = "setup" /\ SetupRaised(m) /\ events[m] # "absent")
         => hist[m].added = 1
    /\ (task[m] = "setup" /\ ~SetupRaised(m)) => hist[m].added = 0

\* C12 witness: the setup task of a module whose setup() raised has finished
\* next to one whose setup() returned.
C12_Witness ==
  \E m, n \in Modules :
    /\ SetupRaised(m)
    /\ Finished(m, "setup")
    /\ events[m] = "unset"
    /\ hist[n].setup = "returned"
    /\ Finished(n, "setup")
    /\ events[n] = "unset"

\* the join loop of run_modules has returned
RunJoined ==
  \/ mpc \in {"run_check", "run_done"}
  \/ mpc = "aborted" /\ \A m \in Modules : task[m] = "run"

\* the Signal of a module changes only from absent to unset and from unset
\* to set
SignalsOnlyAdvance ==
  [][\A n \in Names :
       events'[n] # events[n] =>
         <<events[n], events'[n]>> \in
           {<<"absent", "unset">>, <<"unset", "set">>}]_vars

\* C13 as stated: a Signal is never reset nor replaced once set, and when the
\* run tasks have been joined every module's Signal has been set exactly one
\* time.
C13_SignalSetExactlyOnce ==
  /\ SignalsOnlyAdvance
  /\ [](RunJoined =>
         \A m \in Modules : hist[m].sets = 1 /\ events[m] = "set")

\* C13 amended: a Signal is never reset nor replaced once set and is set at
\* most one time: exactly one time for a module whose run task reached its
\* set step, not at all for a module whose run task has not got there.
C13_SignalSetAtMostOnce ==
  /\ SignalsOnlyAdvance
  /\ [](\A m \in Modules :
          /\ hist[m].sets <= 1
          /\ events[m] = "set" <=> hist[m].sets = 1
          /\ (task[m] = "run" /\ pc[m] = "r_done") => hist[m].sets = 1
          /\ pc[m] = "r_crashed" => hist[m].sets = 0)

\* C13 witness: the run ended in RunDone with the Signals of A and B set and
\* the Signal of C, whose run task died on an undeclared name, still unset.
C13_Witness ==
  /\ mpc = "run_done"
  /\ events["A"] = "set"
  /\ events["B"] = "set"
  /\ hist["A"].sets = 1
  /\ pc["C"] = "r_crashed"
  /\ events["C"] = "unset"

\* the entry the except clauses build for a failure of m
SetupEntry(m) ==
  [error |-> WrapUnknown(ErrorText(m, "setup")), critical |-> TRUE]

ProcessEntry(m) ==
  [error |-> IF hist[m].process = "domain"
             THEN DomainMessage(ErrorText(m, "process"))
             ELSE WrapUnknown(ErrorText(m, "process")),
   critical |-> TRUE]

\* the number of times e occurs in the ledger made of local list l and global
\* list g
OccurrencesIn(e, l, g) ==
  Cardinality({i \in 1..Len(l) : l[i] = e})
    + Cardinality({i \in 1..Len(g) : g[i] = e})

\* the number of times e occurs in self.errors and self.global_errors
Occurrences(e) == OccurrencesIn(e, errors, global_errors)

\* a failure raised by setup() or process() reaches add_error once, with the
\* message of its kind and critical = True, and the task goes on to its
\* Signal step
FailuresReachAddError ==
  \A m \in Modules :
    /\ hist[m].added <= (IF SetupRaised(m) THEN 1 ELSE 0)
                          + (IF ProcessRaised(m) THEN 1 ELSE 0)
    /\ pc[m] \in {"ae_load", "ae_append"} =>
         /\ arg[m].critical
         /\ arg[m] = IF task[m] = "setup" THEN SetupEntry(m) ELSE ProcessEntry(m)
    /\ pc[m] # "r_crashed" \/ ~ProcessInvoked(m)

\* C14: a failure raised by setup() or process() is caught in its task and
\* passed to add_error once, critical and with the message of its kind (the
\* carried message for a domain error of process(), the wrapped message
\* otherwise); the add_error call puts exactly one such entry in the ledger;
\* the task goes on to its Signal and cleanup steps.
C14_FailureBecomesOneCriticalEntry ==
  /\ []FailuresReachAddError
  /\ [][\A m \in Modules :
          (pc[m] = "ae_append" /\ pc'[m] # "ae_append") =>
            /\ OccurrencesIn(arg[m], errors', global_errors')
                 = Occurrences(arg[m]) + 1
            /\ pc'[m] \in {"s_event", "r_print"}]_vars

\* m is on a cycle of the wants relation of r
OnCycle(r, m) == m \in DepsOf(r, m)

SelfCycle == [NoWants EXCEPT !["B"] = <<"B">>, !["C"] = <<"A">>]

\* no module on a cycle has invoked process() or set its Signal
CycleModulesNeverRun ==
  \A m \in Modules :
    (loaded /\ OnCycle(recipe, m)) =>
      /\ ~ProcessInvoked(m)
      /\ hist[m].sets = 0
      /\ events[m] # "set"

\* C15 as stated: with a cycle in the wants relation no module on the cycle
\* invokes process() or sets its Signal, the join of the run tasks does not
\* return and the run reaches neither RunDone nor Aborted from the run phase.
C15_CycleBlocksRunForever ==
  /\ CycleModulesNeverRun
  /\ (loaded /\ \E m \in Modules : OnCycle(recipe, m)) => ~RunJoined

\* C15 amended: no module on a cycle invokes process() or sets its Signal;
\* when a module on a cycle wants only names the recipe declares, the join of
\* the run tasks does not return and the run reaches neither RunDone nor
\* Aborted from the run phase.
C15_DeclaredCycleBlocksRunForever ==
  /\ CycleModulesNeverRun
  /\ (loaded /\ \E m \in Modules :
                  OnCycle(recipe, m) /\ Range(recipe[m]) \subseteq Modules)
       => ~RunJoined

\* C15 witness: B wants itself; A and C, which wants A, ran to their end, B
\* waits on its own Signal and the main thread is in the join.
C15_Witness ==
  /\ recipe = SelfCycle
  /\ mpc = "run_join"
  /\ pc["A"] = "r_done"
  /\ pc["C"] = "r_done"
  /\ pc["B"] = "r_wait"
  /\ events["B"] = "unset"

\* the join loop of setup_modules has returned
SetupJoined == mpc \notin {"new", "loaded", "setup_spawn", "setup_join"}

\* the main thread is between the join of a phase and the start of the next
BetweenPhases ==
  mpc \in {"setup_check", "setup_done", "run_check", "run_done", "aborted"}

\* C16: once the tasks of a phase have been joined the local list is empty
\* and every entry add_error added during the phase occurs exactly once in
\* the global list, whatever the interleaving of the tasks was.
C16_EntriesMovedExactlyOnce ==
  /\ BetweenPhases => errors = <<>>
  /\ \A m \in Modules :
       /\ (SetupJoined /\ SetupRaised(m))
            => OccurrencesIn(SetupEntry(m), <<>>, global_errors) = 1
       /\ (RunJoined /\ ProcessRaised(m))
            => OccurrencesIn(ProcessEntry(m), <<>>, global_errors) = 1

\* C17 as stated: a Signal exists for a module exactly when a task of the
\* module has been started.
C17_SignalIffTaskStarted ==
  \A m \in Modules : events[m] # "absent" <=> task[m] # "none"

\* C17 amended: a Signal exists only for a declared module whose setup task
\* has been started; it exists exactly from the point where that task is past
\* its setup() call and the recording of its failure, so it exists whenever
\* the setup task has finished and all through the run phase.
C17_SignalIffSetupPassed ==
  /\ \A n \in Names :
       events[n] # "absent" => (n \in Modules /\ task[n] # "none")
  /\ \A m \in Modules :
       events[m] # "absent" <=>
         \/ task[m] = "run"
         \/ task[m] = "setup" /\ pc[m] \notin {"s_call", "ae_load", "ae_append",
                                               "s_event"}

\* C17 witness: the setup task of one module is inside setup() with no Signal
\* yet, while another module's setup task has finished and its Signal exists.
C17_Witness ==
  \E m, n \in Modules :
    /\ task[m] = "setup"
    /\ pc[m] = "s_call"
    /\ events[m] = "absent"
    /\ Finished(n, "setup")
    /\ events[n] = "unset"

\* the number of completion notices printed for m
Notices(m) ==
  Cardinality({i \in 1..Len(out) : out[i] = CompletedLine(m)})

\* process() of m has returned or raised
ProcessEnded(m) == hist[m].process \in {"returned", "domain", "other"}

\* the add_error call for the failure of m's process() has returned
ProcessFailureAdded(m) ==
  ProcessRaised(m) /\ hist[m].added = (IF SetupRaised(m) THEN 2 ELSE 1)

\* the run task of m has called cleanup()
RunCleanupCalled(m) ==
  task[m] = "run" /\ (pc[m] \in {"cl_load", "cl_extend", "cl_reset"}
                        \/ hist[m].cleanups = 2)

\* the steps of a run task come in the order wait, process(), add_error on a
\* failure, notice, set, cleanup(), none more than once, and a task that ran
\* to its end has done each
RunStepsInOrder ==
  \A m \in Modules :
    /\ ProcessInvoked(m) =>
         (task[m] = "run" /\ \A d \in Range(recipe[m]) : events[d] = "set")
    /\ hist[m].added <= (IF SetupRaised(m) THEN 1 ELSE 0)
                          + (IF ProcessRaised(m) THEN 1 ELSE 0)
    /\ Notices(m) <= 1
    /\ Notices(m) = 1 =>
         (ProcessEnded(m) /\ (ProcessRaised(m) => ProcessFailureAdded(m)))
    /\ hist[m].sets <= Notices(m)
    /\ RunCleanupCalled(m) => hist[m].sets = 1
    /\ hist[m].cleanups <= 2
    /\ hist[m].cleanups = 2 => pc[m] = "r_done"
    /\ (task[m] = "run" /\ pc[m] = "r_done") =>
         (ProcessEnded(m) /\ Notices(m) = 1 /\ hist[m].cleanups = 2)

\* C18: a run task does its steps in the order wait, process(), record a
\* failure, notice, set, cleanup(), each once; the notice is printed after a
\* failure as after a return; cleanup() is the last step of the task; and when
\* the task has set its Signal the failure its process() raised is in the
\* ledger.
C18_RunTaskStepsAndLedger ==
  /\ RunStepsInOrder
  /\ \A m \in Modules :
       (ProcessRaised(m) /\ hist[m].sets = 1 /\ pc[m] = "cl_load")
         => Occurrences(ProcessEntry(m)) >= 1

\* C19: process() of a module M has not been invoked unless process() of
\* every module D that M wants has returned or raised, so process() of M and
\* process() of D are never running at the same time; with a wanted name that
\* names no module, process() of M is not invoked at all.
C19_ProcessAfterWantedProcessEnded ==
  \A m \in Modules : \A d \in Range(recipe[m]) :
    /\ d \in Modules =>
         /\ ProcessInvoked(m) => ProcessEnded(d)
         /\ ~(hist[m].process = "running" /\ hist[d].process = "running")
    /\ d \notin Modules => ~ProcessInvoked(m)

\* C19 witness: C wants A and B; process() of C is running after process() of
\* A returned and process() of B raised.
C19_Witness ==
  /\ recipe["C"] = <<"A", "B">>
  /\ hist["C"].process = "running"
  /\ hist["A"].process = "returned"
  /\ ProcessRaised("B")

\* the setup phase has passed its check
SetupPassed ==
  \/ mpc \in {"setup_done", "run_spawn", "run_join", "run_check", "run_done"}
  \/ mpc = "aborted" /\ \A m \in Modules : task[m] = "run"

\* the wants relation is acyclic and names declared modules only
AllRunnable == loaded /\ \A m \in Modules : Runnable(recipe, m)

Chain == [NoWants EXCEPT !["A"] = <<"C">>, !["C"] = <<"B">>]

\* C20: with an acyclic wants relation over declared modules and the setup
\* check passed, no run task dies on a missing Signal and process() of a
\* module is invoked from the not-invoked state only; under fair scheduling
\* the run ends up with process() of every module invoked and ended, every
\* Signal set once, every run task finished, and the main thread in RunDone
\* or Aborted.
C20_AcyclicRunTerminates ==
  /\ []((AllRunnable /\ SetupPassed) =>
          \A m \in Modules : pc[m] # "r_crashed")
  /\ [][\A m \in Modules :
          (hist'[m].process = "running" /\ hist[m].process # "running")
            => hist[m].process = "none"]_vars
  /\ <>[]((AllRunnable /\ SetupPassed) =>
            /\ mpc \in {"run_done", "aborted"}
            /\ \A m \in Modules :
                 /\ ProcessEnded(m)
                 /\ events[m] = "set"
                 /\ hist[m].sets = 1
                 /\ Finished(m, "run"))

\* C20 witness: the chain B, C, A ran to RunDone with every Signal set.
C20_Witness ==
  /\ recipe = Chain
  /\ mpc = "run_done"
  /\ \A m \in Modules : events[m] = "set" /\ hist[m].process = "returned"

\* ------------------------------------------------ one caller of the ledger

Running == exitStatus = <<>>

\* the caller calls add_error(error, critical)
ClientAddError ==
  /\ Running
  /\ pc[Client] = "idle"
  /\ Len(errors) + Len(global_errors) < MaxErrors
  /\ \E e \in ClientMessages, c \in BOOLEAN :
       arg' = [arg EXCEPT ![Client] = [error |-> e, critical |-> c]]
  /\ pc' = [pc EXCEPT ![Client] = "ae_load"]
  /\ call' = [NoCall EXCEPT !.op = "add_error", !.L = errors,
                            !.G = global_errors, !.I = input, !.O = output]
  /\ UNCHANGED <<storeVars, mpc, recipe, loaded, module_pool, spawned, task,
                 wi, lref, errorsRef, lists, global_errors, input, output,
                 events, out, exitStatus, hist, faults>>

\* a module puts an item in self.output
ClientOutput ==
  /\ Running
  /\ pc[Client] = "idle"
  /\ Len(output) < MaxOutput
  /\ \E o \in OutputItems : output' = Append(output, o)
  /\ call' = [NoCall EXCEPT !.op = "output"]
  /\ UNCHANGED <<storeVars, mpc, recipe, loaded, module_pool, spawned, pc,
                 task, wi, arg, lref, errorsRef, lists, global_errors, input,
                 events, out, exitStatus, hist, faults>>

\* the caller calls cleanup()
ClientCleanup ==
  /\ Running
  /\ pc[Client] = "idle"
  /\ pc' = [pc EXCEPT ![Client] = "cl_load"]
  /\ call' = [NoCall EXCEPT !.op = "cleanup", !.L = errors,
                            !.G = global_errors, !.I = input, !.O = output]
  /\ UNCHANGED <<storeVars, mpc, recipe, loaded, module_pool, spawned, task,
                 wi, arg, lref, errorsRef, lists, global_errors, input,
                 output, events, out, exitStatus, hist, faults>>

\* the number of check_errors calls that printed
Reports(o) == Cardinality({i \in 1..Len(o) : o[i].kind = "header"})

\* the caller calls check_errors(is_global)
ClientCheck(is_global) ==
  /\ Running
  /\ pc[Client] = "idle"
  /\ Reports(out) < MaxChecks
  /\ LET scanned == IF is_global THEN global_errors ELSE errors
         r == CheckErrors(scanned)
     IN  /\ out' = out \o r.printed
         /\ exitStatus' = IF r.exit THEN <<ExitCode>> ELSE exitStatus
         /\ call' = [NoCall EXCEPT !.op = "check_errors",
                                   !.scope = IF is_global THEN "global"
                                                          ELSE "local",
                                   !.L = scanned, !.from = Len(out)]
  /\ UNCHANGED <<storeVars, mpc, recipe, loaded, module_pool, spawned, pc,
                 task, wi, arg, lref, errorsRef, lists, global_errors, input,
                 output, events, hist, faults>>

NextLedger ==
  \/ ClientAddError
  \/ ClientOutput
  \/ ClientCleanup
  \/ \E is_global \in BOOLEAN : ClientCheck(is_global)
  \/ LedgerStep(Client)

SpecLedger == Init /\ [][NextLedger]_vars

\* ------------------------------------------------------- claims: ledger

\* the call of the SpecLedger caller named op has returned
Returned(op) == call.op = op /\ pc[Client] = "idle"

\* the lines the last check_errors call printed
Printed == SubSeq(out, call.from + 1, Len(out))

HasCritical(es) == \E i \in 1..Len(es) : es[i].critical

\* the position of the first critical entry, or the length of the list
ScanEnd(es) ==
  IF HasCritical(es)
  THEN CHOOSE i \in 1..Len(es) :
         es[i].critical /\ \A j \in 1..(i - 1) : ~es[j].critical
  ELSE Len(es)

\* C3: check_errors, on the local or the global list, exits the process with
\* a non-zero status exactly when the list it scanned has a critical entry;
\* otherwise it returns and the caller goes on.
C3_AbortIffCritical ==
  Returned("check_errors") =>
    /\ ~Running <=> HasCritical(call.L)
    /\ ~Running => exitStatus[1] # 0
    /\ call.L = IF call.scope = "global" THEN global_errors ELSE errors

\* C3 witness: a check of the local list exited although the global list has
\* no critical entry.
C3_Witness ==
  /\ Returned("check_errors")
  /\ call.scope = "local"
  /\ ~Running
  /\ global_errors # <<>>
  /\ ~HasCritical(global_errors)

\* C4: the entry lines check_errors prints are those of the scanned list up to
\* and including its first critical entry, in order (all of them without a
\* critical entry); the abort notice is printed once, as the last line, right
\* after the line of the first critical entry.
C4_PrintsPrefixToFirstCritical ==
  Returned("check_errors") =>
    LET es == call.L
        k == ScanEnd(es)
        entryLines == SelectSeq(Printed, LAMBDA l : l.kind = "entry")
        aborts == {i \in 1..Len(Printed) : Printed[i].kind = "abort"}
    IN  /\ entryLines = [i \in 1..k |-> EntryLine(es[i])]
        /\ HasCritical(es) =>
             /\ aborts = {Len(Printed)}
             /\ Printed[Len(Printed) - 1] = EntryLine(es[k])
        /\ ~HasCritical(es) => aborts = {}

\* C4 witness: the scanned list has an entry after its first critical entry
\* and a non-critical entry before it.
C4_Witness ==
  /\ Returned("check_errors")
  /\ Len(call.L) = 3
  /\ ~call.L[1].critical
  /\ call.L[2].critical
  /\ Len(Printed) = 4

C11_CleanupHandsOverStaging ==
  /\ [](Returned("cleanup") => (input = call.O /\ output = <<>>))
  /\ [][pc[Client] \in {"cl_load", "cl_extend", "cl_reset"}
         => UNCHANGED <<store, clists, module_pool, events>>]_vars

\* C11 witness: cleanup() returned from a call that found the local list
\* empty, an item in output and nothing in input.
C11_Witness ==
  /\ Returned("cleanup")
  /\ call.L = <<>>
  /\ call.G = <<>>
  /\ call.O # <<>>
  /\ call.I = <<>>
  /\ input = call.O

\* ------------------------------------- store_container and get_containers

\* the lists self.store or a returned value still refers to
StoreReachable(st, g) ==
  {Deref(st[x]) : x \in {y \in Tags : st[y] # NoRef}}
    \cup {Deref(g[k].ref) : k \in {j \in StoreTasks : g[j].ref # NoRef}}

StoreCollect(cl, st, g) ==
  [i \in StoreReachable(st, g) \cap DOMAIN cl |-> cl[i]]

\* store_container: the task takes self._store_lock
StoreContainerEnter(k, c) ==
  /\ lock = NoTask
  /\ req[k] = NoReq
  /\ Len(stored) < MaxStores
  /\ lock' = k
  /\ req' = [req EXCEPT ![k] = [op |-> "store", type |-> c.type,
                                data |-> c.data]]
  /\ UNCHANGED <<stateVars, store, clists, got, stored>>

\* mutant of Appended: the container is put in front
Prepended(l, c) == <<c>> \o l

\* list.append
Appended(l, c) == Append(l, c)

\* store_container: self.store.setdefault(type, []).append(container), and
\* the lock is released
StoreContainerBody(k) ==
  /\ lock = k
  /\ req[k].op = "store"
  /\ LET c == [type |-> req[k].type, data |-> req[k].data]
         present == store[c.type] # NoRef
         id == IF present THEN Deref(store[c.type])
                          ELSE FreshId(StoreReachable(store, got))
         old == IF present THEN clists[id] ELSE <<>>
     IN  /\ store' = [store EXCEPT ![c.type] = Ref(id)]
         /\ clists' = [i \in DOMAIN clists \cup {id} |->
                         IF i = id THEN Appended(old, c) ELSE clists[i]]
         /\ stored' = Append(stored, c)
  /\ lock' = NoTask
  /\ req' = [req EXCEPT ![k] = NoReq]
  /\ UNCHANGED <<stateVars, got>>

\* get_containers: the task takes self._store_lock
GetContainersEnter(k, g) ==
  /\ lock = NoTask
  /\ req[k] = NoReq
  /\ lock' = k
  /\ req' = [req EXCEPT ![k] = [op |-> "get", type |-> g, data |-> ""]]
  /\ UNCHANGED <<stateVars, store, clists, got, stored>>

\* get_containers: return self.store.get(type, []), and the lock is released;
\* the value is the list of the store itself, or the new empty list
GetContainersBody(k) ==
  /\ lock = k
  /\ req[k].op = "get"
  /\ LET g == req[k].type
         present == store[g] # NoRef
         dropped == [got EXCEPT ![k] = NoGot]
         id == IF present THEN Deref(store[g])
                          ELSE FreshId(StoreReachable(store, dropped))
         cl == [i \in DOMAIN clists \cup {id} |->
                  IF i = id /\ ~present THEN <<>> ELSE clists[i]]
         ret == [ref |-> Ref(id), type |-> g, snap |-> cl[id], log |-> stored]
     IN  /\ got' = [got EXCEPT ![k] = ret]
         /\ clists' = StoreCollect(cl, store, [got EXCEPT ![k] = ret])
  /\ lock' = NoTask
  /\ req' = [req EXCEPT ![k] = NoReq]
  /\ UNCHANGED <<stateVars, store, stored>>

NextStore ==
  \E k \in StoreTasks :
    \/ \E c \in Containers : StoreContainerEnter(k, c)
    \/ StoreContainerBody(k)
    \/ \E g \in Tags : GetContainersEnter(k, g)
    \/ GetContainersBody(k)

SpecStore == Init /\ [][NextStore]_vars

\* -------------------------------------------------------- claims: store

\* the containers of q that carry type g, in the order of q
OfType(q, g) == SelectSeq(q, LAMBDA c : c.type = g)

\* C8: what get_containers returns for a type is, at the return, the sequence
\* of the containers stored so far with that type, in the order they were
\* stored, and nothing else; for a type nothing was stored under it is the
\* empty sequence.
C8_GetYieldsStoredOfType ==
  \A k \in StoreTasks :
    got[k].ref # NoRef => got[k].snap = OfType(got[k].log, got[k].type)

\* C8 witness: a get returned two different containers of its type while a
\* container of the other type had been stored as well.
C8_Witness ==
  \E k \in StoreTasks :
    /\ got[k].ref # NoRef
    /\ Len(got[k].snap) = 2
    /\ got[k].snap[1] # got[k].snap[2]
    /\ Len(got[k].log) = 3

\* C9: the sequence a get_containers call returned keeps the contents it had
\* at the return, whatever is stored afterwards.
C9_ReturnedIsSnapshot ==
  \A k \in StoreTasks :
    got[k].ref # NoRef => clists[Deref(got[k].ref)] = got[k].snap

====
